---- MODULE Spec2Model ----
(***************************************************************************)
(* Model of src/oplog/entry.js: the oplog entry primitive (create, verify, *)
(* isEntry, isEqual, encode, decode).                                      *)
(*                                                                         *)
(* JavaScript values are tagged records so that values of different        *)
(* JavaScript types can be compared.  Each tag has its own field names.    *)
(***************************************************************************)
EXTENDS Integers, Sequences, FiniteSets, TLC

VARIABLES
    op,      \* name of the operation that produced the current state
    args,    \* arguments of the last call of create
    made,    \* outcome of the last create: error, collaborator calls, signed bytes, entry
    callerEntry, \* the caller's entry object (as returned by create, then possibly mutated)
    tampers, \* number of fields the caller changed on callerEntry since create
    wire,    \* outcome of the last encode: error, {hash, bytes}, the object that was encoded
    dec,     \* outcome of the last two decode calls, one per slot
    res      \* outcome of the last verify / isEqual call

vars == <<op, args, made, callerEntry, tampers, wire, dec, res>>

(***************************************************************************)
(* JavaScript values                                                       *)
(***************************************************************************)
Undefined == [t |-> "undefined"]
Null == [t |-> "null"]
Absent == [t |-> "absent"]          \* marks a property an object does not have
Str(s) == [t |-> "str", s |-> s]
Num(n) == [t |-> "num", n |-> n]
Bool(b) == [t |-> "bool", b |-> b]
Arr(a) == [t |-> "arr", a |-> a]
Obj(f) == [t |-> "obj", f |-> f]
Throw(m) == [t |-> "throw", msg |-> m]

\* Property names of entry objects.  "[i]" stands for the integer-indexed
\* properties that spreading a Uint8Array produces.
Fields == {"id", "payload", "next", "refs", "clock", "v", "key", "identity", "sig",
           "hash", "_payload", "[i]"}

EmptyObject == Obj([k \in Fields |-> Absent])

\* o.k : reading a missing property, or a property of a non-object, gives undefined
Get(o, k) == IF o.t = "obj" /\ o.f[k].t # "absent" THEN o.f[k] ELSE Undefined

\* o.k = v
Set(o, k, v) == Obj([o.f EXCEPT ![k] = v])

\* delete o.k
Delete(o, k) == Obj([o.f EXCEPT ![k] = Absent])

\* JavaScript truthiness, as used by !x, x || y and x && y
Truthy(x) ==
    /\ x.t \notin {"undefined", "null", "absent"}
    /\ ~(x.t = "str" /\ x.s = "")
    /\ ~(x.t = "num" /\ x.n = 0)
    /\ ~(x.t = "bool" /\ ~x.b)

\* x == null
IsNullish(x) == x.t \in {"undefined", "null"}

\* x || y
Or(x, y) == IF Truthy(x) THEN x ELSE y

\* a default parameter value applies when the argument is undefined
Default(x, d) == IF x.t = "undefined" THEN d ELSE x

(***************************************************************************)
(* Canonical codec (multiformats Block with dag-cbor and sha256)           *)
(***************************************************************************)
\* dag-cbor writes the keys of a map sorted by length, then bytewise
CanonOrder == <<"v", "id", "[i]", "key", "sig", "hash", "next", "refs", "clock",
                "payload", "_payload", "identity">>

\* the <<key, value>> pairs of the properties an object has, in canonical order
RECURSIVE Pairs(_, _)
Pairs(o, i) ==
    IF i > Len(CanonOrder) THEN <<>>
    ELSE IF o.f[CanonOrder[i]].t = "absent" THEN Pairs(o, i + 1)
    ELSE <<[k |-> CanonOrder[i], val |-> o.f[CanonOrder[i]]]>> \o Pairs(o, i + 1)

\* dag-cbor refuses to encode undefined
Encodable(x) ==
    /\ x.t # "undefined"
    /\ x.t = "obj" => \A k \in Fields : x.f[k].t # "undefined"

\* Block.encode({ value, codec, hasher }).bytes ; a Throw when the codec refuses
BlockEncode(x) ==
    IF ~Encodable(x) THEN Throw("codec")
    ELSE IF x.t = "obj" THEN [t |-> "bytes", map |-> Pairs(x, 1)]
    ELSE [t |-> "bytes", val |-> x]

\* the object a canonical map decodes to
RECURSIVE FromPairs(_, _)
FromPairs(m, i) ==
    IF i > Len(m) THEN EmptyObject
    ELSE Set(FromPairs(m, i + 1), m[i].k, m[i].val)

\* Block.decode({ bytes, codec, hasher }).value ; a Throw when bytes are not dag-cbor
BlockDecode(b) ==
    IF b.t # "bytes" THEN Throw("codec")
    ELSE IF "map" \in DOMAIN b THEN FromPairs(b.map, 1)
    ELSE IF "val" \in DOMAIN b THEN b.val
    ELSE Throw("codec")

\* cid.toString(base58btc) of the block holding these bytes: the digest is
\* collision free, so the string identifies the bytes
HashOf(b) == [t |-> "hashstr", z |-> b]

(***************************************************************************)
(* Collaborators                                                           *)
(***************************************************************************)
\* an identity exposes publicKey and hash
Identity(n) == [t |-> "identity", publicKey |-> Str("pk" \o n), hash |-> Str("id" \o n)]

\* identity.sign(identity, bytes): a signature binds the signer's key and the bytes
IdentitySign(identity, bytes) == [t |-> "sig", by |-> identity.publicKey, over |-> bytes]

\* identities.verify(sig, key, bytes)
IdentitiesVerify(sig, key, bytes) ==
    /\ sig.t = "sig"
    /\ sig.by = key
    /\ sig.over = bytes

\* Clock(id): a new logical clock starts at time 0
Clock(id) == [t |-> "clock", cid |-> id, time |-> 0]

\* Encryption functions are named by their key; "none" is an absent function.
NoFn == "none"

\* encryptFn(bytes) for the function with key k
Encrypt(k, bytes) == [t |-> "bytes", ek |-> k, ct |-> bytes]

\* bytes that are no dag-cbor block
Junk == [t |-> "bytes", junk |-> TRUE]

\* decryptFn(x) for the function with key k: the plaintext when x was encrypted
\* with k; otherwise the function throws or returns meaningless bytes
Decrypt(k, x) ==
    IF x.t = "bytes" /\ "ek" \in DOMAIN x /\ x.ek = k THEN {x.ct}
    ELSE {Throw("decrypt"), Junk}

(***************************************************************************)
(* create                                                                  *)
(***************************************************************************)
Failed(msg, calls) == [err |-> msg, calls |-> calls, signBytes |-> Undefined, entry |-> Undefined]

\* faulty variant of createCheck: payload is not validated
createCheck_noPayload(identity, id, payload, next) ==
    IF IsNullish(identity) THEN "Identity is required, cannot create entry"
    ELSE IF IsNullish(id) THEN "Entry requires an id"
    ELSE IF IsNullish(next) \/ next.t # "arr" THEN "'next' argument is not an array"
    ELSE ""

\* lines 59-62: the message of the argument error create raises, "" when it raises none
createCheck(identity, id, payload, next) ==
    IF IsNullish(identity) THEN "Identity is required, cannot create entry"
    ELSE IF IsNullish(id) THEN "Entry requires an id"
    ELSE IF IsNullish(payload) THEN "Entry requires a payload"
    ELSE IF IsNullish(next) \/ next.t # "arr" THEN "'next' argument is not an array"
    ELSE ""

\* faulty variant of createValue: refs is left out of the signed object
createValue_noRefs(id, workingPayload, next, refs, clock) ==
    Obj([k \in Fields |->
         CASE k = "id" -> id
           [] k = "payload" -> workingPayload
           [] k = "next" -> next
           [] k = "clock" -> clock
           [] k = "v" -> Num(2)
           [] OTHER -> Absent])

\* lines 73-80: the object create encodes and signs
createValue(id, workingPayload, next, refs, clock) ==
    Obj([k \in Fields |->
         CASE k = "id" -> id
           [] k = "payload" -> workingPayload
           [] k = "next" -> next
           [] k = "refs" -> refs
           [] k = "clock" -> clock
           [] k = "v" -> Num(2)
           [] OTHER -> Absent])

\* create(identity, id, payload, encryptPayloadFn, clock, next, refs): the error
\* raised or the entry returned, the collaborators called in order, and the
\* bytes handed to identity.sign
create(identity, id, payload, encryptPayloadFn, clockArg, nextArg, refsArg) ==
    LET clock0 == Default(clockArg, Null)
        next == Default(nextArg, Arr(<<>>))
        refs == Default(refsArg, Arr(<<>>))
        invalid == createCheck(identity, id, payload, next)
        clock == IF Truthy(clock0) THEN clock0 ELSE Clock(identity.publicKey)
        calls1 == IF Truthy(clock0) THEN <<>> ELSE <<"Clock">>
        encodedPayloadBytes == BlockEncode(payload)
        encryptedPayload == IF encryptPayloadFn # NoFn
                            THEN Encrypt(encryptPayloadFn, encodedPayloadBytes)
                            ELSE Undefined
        calls2 == IF encryptPayloadFn # NoFn THEN Append(calls1, "encryptPayloadFn") ELSE calls1
        entry0 == createValue(id, Or(encryptedPayload, payload), next, refs, clock)
        bytes == BlockEncode(entry0)
        signature == IdentitySign(identity, bytes)
        entry1 == Set(Set(Set(Set(entry0, "key", identity.publicKey),
                                  "identity", identity.hash),
                              "sig", signature),
                          "payload", payload)
        entry2 == IF encryptPayloadFn # NoFn THEN Set(entry1, "_payload", encryptedPayload)
                  ELSE entry1
    IN
    IF invalid # "" THEN Failed(invalid, <<>>)
    ELSE IF encryptPayloadFn # NoFn /\ encodedPayloadBytes.t = "throw" THEN Failed("codec", calls1)
    ELSE IF bytes.t = "throw" THEN Failed("codec", calls2)
    ELSE [err |-> "", calls |-> Append(calls2, "sign"), signBytes |-> bytes, entry |-> entry2]

(***************************************************************************)
(* isEntry, isEqual, verify                                                *)
(***************************************************************************)
\* faulty variant of isEntry: refs is not required
isEntry_noRefs(obj) ==
    IF ~Truthy(obj) THEN obj
    ELSE Bool(/\ Get(obj, "id").t # "undefined"
              /\ Get(obj, "next").t # "undefined"
              /\ Get(obj, "payload").t # "undefined"
              /\ Get(obj, "v").t # "undefined"
              /\ Get(obj, "clock").t # "undefined")

\* the JavaScript value of  obj && obj.id !== undefined && ... ; objects are truthy
isEntry(obj) ==
    IF ~Truthy(obj) THEN obj
    ELSE Bool(/\ Get(obj, "id").t # "undefined"
              /\ Get(obj, "next").t # "undefined"
              /\ Get(obj, "payload").t # "undefined"
              /\ Get(obj, "v").t # "undefined"
              /\ Get(obj, "clock").t # "undefined"
              /\ Get(obj, "refs").t # "undefined")

\* faulty variant of isEqual: entries without a hash are compared by content
isEqual_structural(a, b) ==
    IF ~Truthy(a) THEN a
    ELSE IF ~Truthy(b) THEN b
    ELSE IF ~Truthy(Get(a, "hash")) THEN Bool(a = b)
    ELSE Bool(Get(a, "hash") = Get(b, "hash"))

\* the JavaScript value of  a && b && a.hash && a.hash === b.hash
isEqual(a, b) ==
    IF ~Truthy(a) THEN a
    ELSE IF ~Truthy(b) THEN b
    ELSE IF ~Truthy(Get(a, "hash")) THEN Get(a, "hash")
    ELSE Bool(Get(a, "hash") = Get(b, "hash"))

\* faulty variant of ShallowCopy: the caller's object itself is used
ShallowCopy_alias(o) == [obj |-> IF o.t = "obj" THEN o ELSE EmptyObject, aliased |-> TRUE]

\* Object.assign({}, entry): a new object with the properties of entry
ShallowCopy(o) == [obj |-> IF o.t = "obj" THEN o ELSE EmptyObject, aliased |-> FALSE]

\* faulty variant of verifyValue: the visible payload is used, never _payload
verifyValue_plainPayload(entry) ==
    Obj([k \in Fields |->
         IF k \in {"id", "payload", "next", "refs", "clock", "v"} THEN Get(entry, k)
         ELSE Absent])

\* faulty variant of verifyValue: v is the constant 2, not the entry's v
verifyValue_fixedVersion(entry) ==
    Obj([k \in Fields |->
         CASE k = "payload" -> Or(Get(entry, "_payload"), Get(entry, "payload"))
           [] k \in {"id", "next", "refs", "clock"} -> Get(entry, k)
           [] k = "v" -> Num(2)
           [] OTHER -> Absent])

\* the value whose canonical bytes verify checks the signature against
verifyValue(entry) ==
    LET e == ShallowCopy(entry).obj
    IN Obj([k \in Fields |->
            CASE k = "id" -> Get(e, "id")
              [] k = "payload" -> Or(Get(e, "_payload"), Get(e, "payload"))
              [] k = "next" -> Get(e, "next")
              [] k = "refs" -> Get(e, "refs")
              [] k = "clock" -> Get(e, "clock")
              [] k = "v" -> Get(e, "v")
              [] OTHER -> Absent])

\* verify(identities, entry): the error raised or the provider's answer, the
\* bytes handed to the provider, and whether the provider was called
verify(identities, entry) ==
    LET none(msg) == [err |-> msg, result |-> Undefined, bytes |-> Undefined, called |-> FALSE]
        bytes == BlockEncode(verifyValue(entry))
    IN
    IF ~Truthy(identities) THEN none("Identities is required, cannot verify entry")
    ELSE IF ~Truthy(isEntry(entry)) THEN none("Invalid Log entry")
    ELSE IF ~Truthy(Get(entry, "key")) THEN none("Entry doesn't have a key")
    ELSE IF ~Truthy(Get(entry, "sig")) THEN none("Entry doesn't have a signature")
    ELSE IF bytes.t = "throw" THEN none("codec")
    ELSE [err |-> "",
          result |-> Bool(IdentitiesVerify(Get(entry, "sig"), Get(entry, "key"), bytes)),
          bytes |-> bytes,
          called |-> TRUE]

(***************************************************************************)
(* encode, decode                                                          *)
(***************************************************************************)
\* encode(entry, encryptEntryFn, encryptPayloadFn): the error raised or
\* {hash, bytes}, the object that was canonically encoded (encoded), and the
\* caller's object after the call (caller)
encode(entry, encryptEntryFn, encryptPayloadFn) ==
    LET copy == ShallowCopy(entry)
        e0 == copy.obj
        e1 == IF encryptPayloadFn # NoFn THEN Set(e0, "payload", Get(e0, "_payload")) ELSE e0
        e2 == Delete(Delete(e1, "_payload"), "hash")
        caller == IF copy.aliased THEN e2 ELSE entry
        plain == BlockEncode(e2)
        encryptedEntry == BlockEncode(Encrypt(encryptEntryFn, plain))
        bytes == IF encryptEntryFn # NoFn THEN encryptedEntry ELSE plain
    IN
    IF plain.t = "throw"
    THEN [err |-> "codec", hash |-> Undefined, bytes |-> Undefined, encoded |-> Undefined,
          caller |-> caller]
    ELSE [err |-> "", hash |-> HashOf(bytes), bytes |-> bytes, encoded |-> e2,
          caller |-> caller]

\* { ...entry, hash }: spreading a Uint8Array copies its integer-indexed
\* properties, spreading another non-object copies nothing
Spread(x, hash) ==
    IF x.t = "obj" THEN Set(x, "hash", hash)
    ELSE IF x.t = "bytes" THEN Set(Set(EmptyObject, "[i]", x), "hash", hash)
    ELSE Set(EmptyObject, "hash", hash)

DecodeFailed(msg) == [err |-> msg, entry |-> Undefined]

\* lines 166-174: the bytes and cid after the optional entry-level decryption
decryptEntryStep(bytes, decryptEntryFn) ==
    IF decryptEntryFn = NoFn THEN {[err |-> "", bytes |-> bytes, cid |-> Undefined]}
    ELSE LET encryptedEntry == BlockDecode(bytes)
         IN IF encryptedEntry.t = "throw"
            THEN {[err |-> "Could not decrypt entry", bytes |-> Undefined, cid |-> Undefined]}
            ELSE {IF d.t = "throw"
                  THEN [err |-> "Could not decrypt entry", bytes |-> Undefined, cid |-> Undefined]
                  ELSE [err |-> "", bytes |-> d, cid |-> HashOf(bytes)] :
                  d \in Decrypt(decryptEntryFn, encryptedEntry)}

\* faulty variant of decryptPayloadStep: the ciphertext is not kept in _payload
decryptPayloadStep_noCache(entry, decryptPayloadFn) ==
    IF decryptPayloadFn = NoFn THEN {[err |-> "", entry |-> entry]}
    ELSE {LET decryptedPayload == IF d.t = "throw" THEN d ELSE BlockDecode(d)
          IN IF decryptedPayload.t = "throw" \/ entry.t # "obj"
             THEN DecodeFailed("Could not decrypt payload")
             ELSE [err |-> "", entry |-> Set(entry, "payload", decryptedPayload)] :
          d \in Decrypt(decryptPayloadFn, Get(entry, "payload"))}

\* lines 179-188: the entry after the optional payload-level decryption
decryptPayloadStep(entry, decryptPayloadFn) ==
    IF decryptPayloadFn = NoFn THEN {[err |-> "", entry |-> entry]}
    ELSE {LET decryptedPayload == IF d.t = "throw" THEN d ELSE BlockDecode(d)
          IN IF decryptedPayload.t = "throw" \/ entry.t # "obj"
             THEN DecodeFailed("Could not decrypt payload")
             ELSE [err |-> "",
                   entry |-> Set(Set(entry, "_payload", Get(entry, "payload")),
                                 "payload", decryptedPayload)] :
          d \in Decrypt(decryptPayloadFn, Get(entry, "payload"))}

\* faulty variant of decodeHash: always the hash of the inner block
decodeHash_inner(cid, bytes) == HashOf(bytes)

\* lines 190-191: cid = cid || decodedEntry.cid, rendered as a string
decodeHash(cid, bytes) == Or(cid, HashOf(bytes))

\* decode(bytes, decryptEntryFn, decryptPayloadFn): the set of possible outcomes,
\* each the error raised or the entry returned
decode(bytes, decryptEntryFn, decryptPayloadFn) ==
    UNION {
        IF s1.err # "" THEN {DecodeFailed(s1.err)}
        ELSE LET decodedEntry == BlockDecode(s1.bytes)
             IN IF decodedEntry.t = "throw" THEN {DecodeFailed("codec")}
                ELSE {IF s3.err # "" THEN DecodeFailed(s3.err)
                      ELSE [err |-> "",
                            entry |-> Spread(s3.entry, decodeHash(s1.cid, s1.bytes))] :
                      s3 \in decryptPayloadStep(decodedEntry, decryptPayloadFn)} :
        s1 \in decryptEntryStep(bytes, decryptEntryFn)}

(***************************************************************************)
(* Inputs                                                                  *)
(***************************************************************************)
MaxTampers == 1

GivenClock == [t |-> "clock", cid |-> Str("pkB"), time |-> 3]

IdentityArgs == {Identity("A"), Undefined}
IdArgs == {Str("log1"), Undefined}
PayloadArgs == {Str("hello"), Num(0), Null}
ClockArgs == {Undefined, GivenClock}
NextArgs == {Undefined, Null, Str("zP"), Arr(<<Str("zP")>>)}
RefsArgs == {Undefined, Arr(<<Str("zR")>>)}
EncryptFns == {NoFn, "k1"}
DecryptEntryFns == {NoFn, "k1", "k2"}
DecryptPayloadFns == {NoFn, "k1", "k2"}
IdentitiesArgs == {[t |-> "identities"], Undefined}
Slots == {1, 2}

SignedFields == {"id", "payload", "next", "refs", "clock", "v"}
UnsignedFields == {"key", "identity", "sig", "hash"}

\* the values a caller may write into a field of an entry it holds
TamperValues(k) ==
    CASE k = "id" -> {Str("log2"), Null, Undefined}
      [] k = "payload" -> {Str("hello"), Str("bye"), Undefined}
      [] k \in {"next", "refs"} -> {Arr(<<>>), Arr(<<Str("zX")>>), Undefined}
      [] k = "clock" -> {Clock(Str("pkA")), [t |-> "clock", cid |-> Str("pkA"), time |-> 1], Undefined}
      [] k = "v" -> {Num(1), Undefined}
      [] k = "key" -> {Str("pkB"), Str(""), Undefined}
      [] k = "identity" -> {Str("idB")}
      [] k = "sig" -> {IdentitySign(Identity("B"), Junk), Undefined}
      [] k = "hash" -> {HashOf(Junk)}

(***************************************************************************)
(* State machine: one caller using the module.  After create the caller    *)
(* either changes fields of the entry and verifies it, or encodes it,      *)
(* decodes the bytes (slot 1), encodes the decoded entry again and decodes *)
(* those bytes (slot 2); verify and isEqual apply to any object it holds.  *)
(***************************************************************************)
NotCalled == "not called"

NoWire == [err |-> NotCalled, hash |-> Undefined, bytes |-> Undefined, encoded |-> Undefined,
           source |-> Undefined, fnE |-> NoFn, fnP |-> NoFn, gen |-> 1]

NoDecode == [err |-> NotCalled, entry |-> Undefined, fnE |-> NoFn, fnP |-> NoFn, wire |-> NoWire]

NoResult == [kind |-> "none", a |-> Undefined, b |-> Undefined, out |-> Undefined]

Init ==
    /\ op = "init"
    /\ args = [identity |-> Undefined, id |-> Undefined, payload |-> Undefined,
               encryptPayloadFn |-> NoFn, clock |-> Undefined, next |-> Undefined,
               refs |-> Undefined]
    /\ made = Failed(NotCalled, <<>>)
    /\ callerEntry = Undefined
    /\ tampers = 0
    /\ wire = NoWire
    /\ dec = [i \in Slots |-> NoDecode]
    /\ res = NoResult

\* the caller calls create and keeps the entry it returns
Create ==
    /\ op = "init"
    /\ \E identity \in IdentityArgs, id \in IdArgs, payload \in PayloadArgs,
          fn \in EncryptFns, clock \in ClockArgs, next \in NextArgs, refs \in RefsArgs :
          /\ args' = [identity |-> identity, id |-> id, payload |-> payload,
                      encryptPayloadFn |-> fn, clock |-> clock, next |-> next, refs |-> refs]
          /\ made' = create(identity, id, payload, fn, clock, next, refs)
    /\ callerEntry' = made'.entry
    /\ op' = "create"
    /\ UNCHANGED <<tampers, wire, dec, res>>

\* the caller assigns a different value to one field of the entry it holds
Tamper ==
    /\ callerEntry.t = "obj"
    /\ tampers < MaxTampers
    /\ wire.err = NotCalled
    /\ res.kind = "none"
    /\ \E k \in SignedFields \cup UnsignedFields :
       \E x \in TamperValues(k) :
          /\ x # Get(callerEntry, k)
          /\ callerEntry' = Set(callerEntry, k, x)
    /\ tampers' = tampers + 1
    /\ op' = "tamper"
    /\ UNCHANGED <<args, made, wire, dec, res>>

\* the objects the caller can pass to verify and isEqual
Held == {Undefined, callerEntry} \cup {dec[i].entry : i \in Slots}

\* the caller calls verify on an object it holds
Verify ==
    /\ op # "init"
    /\ res.kind = "none"
    /\ \E identities \in IdentitiesArgs, e \in Held :
          res' = [kind |-> "verify", a |-> identities, b |-> e, out |-> verify(identities, e)]
    /\ op' = "verify"
    /\ UNCHANGED <<args, made, callerEntry, tampers, wire, dec>>

\* the caller calls isEqual on two objects it holds
IsEqual ==
    /\ op # "init"
    /\ res.kind = "none"
    /\ \E a \in Held, b \in Held :
          res' = [kind |-> "isEqual", a |-> a, b |-> b, out |-> isEqual(a, b)]
    /\ op' = "isEqual"
    /\ UNCHANGED <<args, made, callerEntry, tampers, wire, dec>>

\* the caller calls encode on the entry from create or, once slot 1 holds a
\* decoded entry, on that entry; the object passed is what encode leaves of it
Encode ==
    /\ tampers = 0
    /\ res.kind = "none"
    /\ dec[2].err = NotCalled
    /\ \E fnE \in EncryptFns, fnP \in EncryptFns :
          LET fromDecoded == dec[1].err = ""
              source == IF fromDecoded THEN dec[1].entry ELSE callerEntry
              r == encode(source, fnE, fnP)
          IN /\ source.t = "obj"
             /\ wire' = [err |-> r.err, hash |-> r.hash, bytes |-> r.bytes,
                         encoded |-> r.encoded, source |-> source,
                         fnE |-> fnE, fnP |-> fnP, gen |-> IF fromDecoded THEN 2 ELSE 1]
             /\ callerEntry' = IF fromDecoded THEN callerEntry ELSE r.caller
             /\ dec' = IF fromDecoded THEN [dec EXCEPT ![1].entry = r.caller] ELSE dec
    /\ op' = "encode"
    /\ UNCHANGED <<args, made, tampers, res>>

\* the caller calls decode on the bytes of the last encode
Decode ==
    /\ wire.err = ""
    /\ res.kind = "none"
    /\ \E fnE \in DecryptEntryFns, fnP \in DecryptPayloadFns :
       \E r \in decode(wire.bytes, fnE, fnP) :
          dec' = [dec EXCEPT ![wire.gen] = [err |-> r.err, entry |-> r.entry, fnE |-> fnE,
                                            fnP |-> fnP, wire |-> wire]]
    /\ op' = "decode"
    /\ UNCHANGED <<args, made, callerEntry, tampers, wire, res>>

Next == Create \/ Tamper \/ Verify \/ IsEqual \/ Encode \/ Decode

Spec == Init /\ [][Next]_vars

(***************************************************************************)
(* Properties                                                              *)
(***************************************************************************)
\* create was called with arguments that pass its validation
ValidArgs ==
    /\ ~IsNullish(args.identity)
    /\ ~IsNullish(args.id)
    /\ ~IsNullish(args.payload)
    /\ args.next.t \in {"arr", "undefined"}

\* verify was called with an identity provider
Verified == res.kind = "verify" /\ Truthy(res.a)

\* the properties in which object x differs from object y
DiffFields(x, y) == {k \in Fields : x.f[k] # y.f[k]}

\* verify was called on the created entry after exactly one signed field changed
OneSignedFieldChanged(k) ==
    /\ Verified
    /\ made.err = ""
    /\ res.b.t = "obj"
    /\ DiffFields(res.b, made.entry) = {k}
    /\ k \in SignedFields

\* C1: for all valid arguments, with or without encryptPayloadFn and with or
\* without a clock, create returns an entry, and verify on that entry hands
\* the provider exactly the bytes create signed and returns true.
C1_VerifyOfCreate ==
    /\ (op # "init" /\ ValidArgs) => made.err = ""
    /\ (Verified /\ made.err = "" /\ res.b = made.entry)
          => /\ res.out.err = ""
             /\ res.out.bytes = made.signBytes
             /\ res.out.result = Bool(TRUE)

C1_Witness ==
    /\ Verified
    /\ made.err = ""
    /\ res.b = made.entry
    /\ args.encryptPayloadFn # NoFn
    /\ args.clock = Undefined
    /\ args.payload = Num(0)
    /\ res.out.result = Bool(TRUE)

\* C2 (as stated): changing any one signed field of a created entry to a
\* different value makes verify return false.
C2_AnyTamperFails ==
    \A k \in SignedFields :
        OneSignedFieldChanged(k) => (res.out.err = "" /\ res.out.result = Bool(FALSE))

\* C2 (amended): changing one of id, next, refs, clock, v, or payload of an
\* entry created without encryptPayloadFn, to a different value that is not
\* undefined makes verify return false; changing payload of an entry created
\* with encryptPayloadFn leaves verify returning true; setting a signed field
\* to undefined makes verify raise "Invalid Log entry".
C2_TamperDetected ==
    \A k \in SignedFields :
        OneSignedFieldChanged(k) =>
            IF Get(res.b, k).t = "undefined"
            THEN res.out.err = "Invalid Log entry"
            ELSE IF k = "payload" /\ args.encryptPayloadFn # NoFn
            THEN res.out.err = "" /\ res.out.result = Bool(TRUE)
            ELSE res.out.err = "" /\ res.out.result = Bool(FALSE)

C2_Witness ==
    /\ OneSignedFieldChanged("payload")
    /\ args.encryptPayloadFn = NoFn
    /\ res.out.result = Bool(FALSE)

\* the first decode, of bytes encoded from the created entry, when payload
\* encryption is used throughout or not at all and decode has the inverse of
\* the entry-level function
MatchingEntryFns == dec[1].err # NotCalled /\ dec[1].fnE = dec[1].wire.fnE
MatchingPayloadFns == dec[1].wire.fnP = args.encryptPayloadFn /\ dec[1].fnP = dec[1].wire.fnP

\* C3: for an entry e from create and each combination of entry-level and
\* payload-level encryption with the inverse functions given to decode, encode
\* succeeds, decode(encode(e).bytes) reproduces id, payload, next, refs, clock
\* and v of e, and its hash is encode(e).hash: the hash of the wrapper block
\* under entry-level encryption, of the plaintext block otherwise.
C3_RoundTrip ==
    /\ (wire.err # NotCalled /\ wire.gen = 1 /\ wire.fnP = args.encryptPayloadFn)
          => wire.err = ""
    /\ (MatchingEntryFns /\ MatchingPayloadFns) =>
          /\ dec[1].wire.source = made.entry
          /\ dec[1].err = ""
          /\ \A k \in SignedFields : Get(dec[1].entry, k) = Get(made.entry, k)
          /\ Get(dec[1].entry, "hash") = dec[1].wire.hash
          /\ dec[1].wire.hash = HashOf(dec[1].wire.bytes)
          /\ dec[1].wire.bytes =
               IF dec[1].wire.fnE # NoFn
               THEN BlockEncode(Encrypt(dec[1].wire.fnE, BlockEncode(dec[1].wire.encoded)))
               ELSE BlockEncode(dec[1].wire.encoded)

C3_Witness ==
    /\ MatchingEntryFns
    /\ MatchingPayloadFns
    /\ dec[1].fnE # NoFn
    /\ dec[1].fnP # NoFn
    /\ Get(dec[1].entry, "payload") = Num(0)
    /\ Get(dec[1].entry, "hash") = dec[1].wire.hash

\* C4: decode of entry-level-encrypted bytes with no decryptEntryFn, or with one
\* that is not the inverse, raises "Could not decrypt entry" and returns nothing.
C4_WrongEntryKeyRaises ==
    \A i \in Slots :
        (dec[i].err # NotCalled /\ dec[i].wire.fnE # NoFn /\ dec[i].fnE # dec[i].wire.fnE)
            => (dec[i].err = "Could not decrypt entry" /\ dec[i].entry = Undefined)

\* C5: for an entry created and encoded with encryptPayloadFn, decode with
\* decryptPayloadFn returns the plaintext in payload and the signed ciphertext
\* in _payload, decode without it leaves the ciphertext in payload, and verify
\* returns true on either decoded entry.
C5_PayloadRoundTrip ==
    (/\ MatchingEntryFns
     /\ args.encryptPayloadFn # NoFn
     /\ dec[1].wire.fnP = args.encryptPayloadFn
     /\ dec[1].fnP \in {NoFn, args.encryptPayloadFn}) =>
        /\ dec[1].err = ""
        /\ IF dec[1].fnP = NoFn
           THEN /\ Get(dec[1].entry, "payload") = Get(made.entry, "_payload")
                /\ Get(dec[1].entry, "_payload") = Undefined
           ELSE /\ Get(dec[1].entry, "payload") = args.payload
                /\ Get(dec[1].entry, "_payload") = Get(made.entry, "_payload")
        /\ (Verified /\ res.b = dec[1].entry) =>
              /\ res.out.err = ""
              /\ res.out.bytes = made.signBytes
              /\ res.out.result = Bool(TRUE)

C5_Witness ==
    /\ MatchingEntryFns
    /\ args.encryptPayloadFn # NoFn
    /\ dec[1].wire.fnP = args.encryptPayloadFn
    /\ dec[1].fnP = args.encryptPayloadFn
    /\ Verified
    /\ res.b = dec[1].entry
    /\ Get(res.b, "payload") = args.payload
    /\ res.out.result = Bool(TRUE)

\* the values the signature covers: id, next, refs, clock, v and the ciphertext
\* _payload when the entry has one, otherwise payload
SignedView(x) ==
    [k \in SignedFields |->
        IF k = "payload" /\ Get(x, "_payload").t # "undefined"
        THEN Get(x, "_payload") ELSE Get(x, k)]

\* the keys of a canonical map
MapKeys(b) == {b.map[i].k : i \in 1..Len(b.map)}

\* C6: the bytes create signs and the bytes verify hands to the provider hold
\* exactly id, payload, next, refs, clock and v, and verify's bytes equal the
\* signed bytes exactly when the entry agrees with the created entry on id,
\* next, refs, clock, v and payload-or-ciphertext, whatever its key, identity,
\* sig and hash are.
C6_SigningScope ==
    /\ made.err = "" => MapKeys(made.signBytes) = SignedFields
    /\ (res.kind = "verify" /\ res.out.called) => MapKeys(res.out.bytes) = SignedFields
    /\ (res.kind = "verify" /\ res.out.called /\ made.err = "") =>
          (res.out.bytes = made.signBytes <=> SignedView(res.b) = SignedView(made.entry))

C6_Witness ==
    /\ res.kind = "verify"
    /\ res.out.called
    /\ made.err = ""
    /\ Get(res.b, "key") # Get(made.entry, "key")
    /\ Get(made.entry, "_payload") # Undefined
    /\ res.out.bytes = made.signBytes

ArgumentErrors == {"Identity is required, cannot create entry", "Entry requires an id",
                   "Entry requires a payload", "'next' argument is not an array"}

\* C7: create fails with an argument error when identity or id is missing,
\* payload is null or undefined, or next is given and is not an array, and then
\* no collaborator (clock provider, encryptPayloadFn, identity.sign) was called.
C7_ArgumentErrors ==
    (op # "init" /\ ~ValidArgs) =>
        /\ made.err \in ArgumentErrors
        /\ made.calls = <<>>
        /\ made.signBytes = Undefined
        /\ made.entry = Undefined

C7_Witness ==
    /\ made.err = "Entry requires a payload"
    /\ args.encryptPayloadFn # NoFn
    /\ args.clock = Undefined
    /\ made.calls = <<>>

StructuralErrors == {"Identities is required, cannot verify entry", "Invalid Log entry",
                     "Entry doesn't have a key", "Entry doesn't have a signature"}

\* C8: verify raises a structural error, without calling the provider, exactly
\* when the provider is missing, the entry is no object or lacks one of id,
\* next, payload, v, clock, refs, or its key or sig is missing or empty;
\* otherwise it raises nothing and returns the provider's boolean.
C8_VerifyErrors ==
    res.kind = "verify" =>
        IF \/ ~Truthy(res.a)
           \/ res.b.t # "obj"
           \/ \E k \in SignedFields : Get(res.b, k).t = "undefined"
           \/ ~Truthy(Get(res.b, "key"))
           \/ ~Truthy(Get(res.b, "sig"))
        THEN /\ res.out.err \in StructuralErrors
             /\ ~res.out.called
             /\ res.out.result = Undefined
        ELSE /\ res.out.err = ""
             /\ res.out.called
             /\ res.out.result = Bool(IdentitiesVerify(Get(res.b, "sig"), Get(res.b, "key"),
                                                       res.out.bytes))

C8_Witness ==
    /\ res.kind = "verify"
    /\ Get(res.b, "sig") # Get(made.entry, "sig")
    /\ res.out.err = ""
    /\ res.out.called
    /\ res.out.result = Bool(FALSE)

\* C9: isEqual(a, b) is true iff a and b are objects, both have a hash and the
\* hashes are equal; otherwise its value is falsy, so an entry without a hash
\* equals nothing, itself included.
C9_IsEqual ==
    res.kind = "isEqual" =>
        /\ res.out = Bool(TRUE) <=>
              /\ res.a.t = "obj"
              /\ res.b.t = "obj"
              /\ Get(res.a, "hash") # Undefined
              /\ Get(res.b, "hash") # Undefined
              /\ Get(res.a, "hash") = Get(res.b, "hash")
        /\ res.out # Bool(TRUE) => ~Truthy(res.out)

C9_Witness ==
    /\ res.kind = "isEqual"
    /\ made.err = ""
    /\ res.a = made.entry
    /\ res.b = made.entry
    /\ res.out # Bool(TRUE)

====
